---- MODULE Spec2Model ----
(***************************************************************************)
(* Model of examples/rust/src/main.rs: the demonstration client of the     *)
(* Camoufox connector.  The client resolves the API base address from the  *)
(* environment, checks /health, asks /next five times and /stats once.     *)
(* The server (and the process environment) are the nondeterministic       *)
(* surroundings of the client.                                             *)
(***************************************************************************)
EXTENDS Integers, Sequences, FiniteSets, TLC

(***************************************************************************)
(* Bounds of the model.                                                    *)
(***************************************************************************)
\* how many fields of a response body may deviate from the well-formed one
MaxOdd == 1
\* how many times the environment variable may be rewritten during a run
MaxEnvChanges == 1

(***************************************************************************)
(* JSON values.  An integer literal of a body is kept as two base-2^16     *)
(* digits (hi, lo), value hi * 2^16 + lo with 0 <= lo < 2^16, so that      *)
(* literals outside the 32-bit range can be written down.                  *)
(***************************************************************************)
Radix == 2 ^ 16

JStr(s) == [t |-> "str", s |-> s, hi |-> 0, lo |-> 0]
JInt(hi, lo) == [t |-> "int", s |-> "", hi |-> hi, lo |-> lo]
JNull == [t |-> "null", s |-> "", hi |-> 0, lo |-> 0]
\* stands for a field the body does not have (never a value of an object)
JAbsent == [t |-> "absent", s |-> "", hi |-> 0, lo |-> 0]

\* the largest and the smallest hi digit of a literal that fits an i32
I32MaxHi == (Radix \div 2) - 1
I32MinHi == -(Radix \div 2)

EmptyObj == [f \in {} |-> JNull]

\* What the server may answer: the connection fails, the body is not JSON,
\* or the body is a JSON object.
\* The HTTP status code is not part of an answer: no call uses
\* error_for_status, so the client never looks at it.
TransportFailure == [kind |-> "transport", obj |-> EmptyObj]
MalformedBody == [kind |-> "malformed", obj |-> EmptyObj]
JsonBody(o) == [kind |-> "json", obj |-> o]

\* Result<T, Box<dyn Error>>
Ok(v) == [ok |-> TRUE, val |-> v]
Err(e) == [ok |-> FALSE, err |-> e]

(***************************************************************************)
(* serde: decoding of one field of a derived Deserialize struct.           *)
(***************************************************************************)
\* a String field: present and a JSON string
StringFieldOk(o, f) == f \in DOMAIN o /\ o[f].t = "str"

\* an i32 field: present, a JSON integer, and within the 32-bit range
I32FieldOk(o, f) ==
    /\ f \in DOMAIN o
    /\ o[f].t = "int"
    /\ o[f].hi >= I32MinHi
    /\ o[f].hi <= I32MaxHi

\* the i32 a literal decodes to
I32Value(j) == j.hi * Radix + j.lo

\* send().await? followed by json().await? : the outcome before the struct
\* is looked at; "" when the body is a JSON object
FetchError(resp) ==
    IF resp.kind = "transport" THEN "transport"
    ELSE IF resp.kind = "malformed" THEN "decode"
    ELSE ""

(***************************************************************************)
(* The three queries, as functions of what the server answered.            *)
(***************************************************************************)
DefaultUrl == "http://localhost:8080"

\* env::var("CAMOUFOX_API").unwrap_or_else(default); e is <<>> when the
\* variable is unset and <<value>> when it is set
get_api_url(e) == IF e = <<>> THEN DefaultUrl ELSE e[1]

\* HealthResponse { status: String }
HealthDecodes(o) == StringFieldOk(o, "status")

\* a check that only looks for the word "unhealthy"
check_health_not_unhealthy(resp) ==
    IF FetchError(resp) # "" THEN Err(FetchError(resp))
    ELSE IF ~HealthDecodes(resp.obj) THEN Err("decode")
    ELSE Ok(resp.obj["status"].s # "unhealthy")

check_health(resp) ==
    IF FetchError(resp) # "" THEN Err(FetchError(resp))
    ELSE IF ~HealthDecodes(resp.obj) THEN Err("decode")
    ELSE Ok(resp.obj["status"].s = "healthy")

\* EndpointResponse { endpoint: String }
EndpointDecodes(o) == StringFieldOk(o, "endpoint")

get_next_endpoint(resp) ==
    IF FetchError(resp) # "" THEN Err(FetchError(resp))
    ELSE IF ~EndpointDecodes(resp.obj) THEN Err("decode")
    ELSE Ok(resp.obj["endpoint"].s)

\* StatsResponse { mode: String, total_instances: i32, ... }
StatsIntFields ==
    {"total_instances", "healthy_instances", "active_connections",
     "total_connections"}

\* a decoder that also insists on healthy_instances <= total_instances
StatsDecodesValidated(o) ==
    /\ StringFieldOk(o, "mode")
    /\ \A f \in StatsIntFields : I32FieldOk(o, f)
    /\ I32Value(o["healthy_instances"]) <= I32Value(o["total_instances"])

StatsDecodes(o) ==
    /\ StringFieldOk(o, "mode")
    /\ \A f \in StatsIntFields : I32FieldOk(o, f)

StatsResponse(o) ==
    [mode |-> o["mode"].s,
     total_instances |-> I32Value(o["total_instances"]),
     healthy_instances |-> I32Value(o["healthy_instances"]),
     active_connections |-> I32Value(o["active_connections"]),
     total_connections |-> I32Value(o["total_connections"])]

get_stats(resp) ==
    IF FetchError(resp) # "" THEN Err(FetchError(resp))
    ELSE IF ~StatsDecodes(resp.obj) THEN Err("decode")
    ELSE Ok(StatsResponse(resp.obj))

(***************************************************************************)
(* The answers the server is allowed to give.  A body is the well-formed   *)
(* one of its path with at most MaxOdd fields removed or replaced.         *)
(***************************************************************************)
Variants(base, vals) ==
    { [f \in {d \in DOMAIN base : ~(d \in D /\ g[d] = JAbsent)} |->
          IF f \in D THEN g[f] ELSE base[f]] :
      <<D, g>> \in UNION { {<<D0, g0>> : g0 \in [D0 -> vals \cup {JAbsent}]} :
                           D0 \in {X \in SUBSET DOMAIN base :
                                       Cardinality(X) <= MaxOdd} } }

Endpoints == {"ws://host:9001/abc", "ws://host:9002/def"}

HealthVals ==
    {JStr("healthy"), JStr("unhealthy"), JStr("Healthy"), JInt(0, 1), JNull}
EndpointVals == {JStr(e) : e \in Endpoints} \cup {JInt(0, 9001), JNull}
StatsVals ==
    {JStr("single"), JInt(0, 3), JInt(0, 5),
     JInt(I32MaxHi, Radix - 1), JInt(I32MaxHi + 1, 0),
     JInt(I32MinHi, 0), JInt(I32MinHi - 1, Radix - 1)}

HealthBase == [status |-> JStr("healthy")]
EndpointBase == [endpoint |-> JStr("ws://host:9001/abc")]
StatsBase ==
    [mode |-> JStr("pool"), total_instances |-> JInt(0, 3),
     healthy_instances |-> JInt(0, 3), active_connections |-> JInt(0, 1),
     total_connections |-> JInt(0, 42)]

Bodies(path) ==
    IF path = "/health" THEN Variants(HealthBase, HealthVals)
    ELSE IF path = "/next" THEN Variants(EndpointBase, EndpointVals)
    ELSE Variants(StatsBase, StatsVals)

Responses(path) ==
    {TransportFailure, MalformedBody} \cup {JsonBody(o) : o \in Bodies(path)}

(***************************************************************************)
(* Console lines.  A line is its format string, the integer and the text   *)
(* substituted into it.                                                    *)
(***************************************************************************)
Line(text, n, str) == [text |-> text, n |-> n, s |-> str]

HealthDebugLine(status) == Line("Server health: HealthResponse {:?}", 0, status)
HealthyLine == Line("Server is healthy!", 0, "")
PoolHeader == Line("=== Pool Example ===", 0, "")
PoolLineZeroBased(k, endpoint) ==
    Line("Request {}: Got endpoint {}", k - 1, endpoint)
PoolLine(k, endpoint) == Line("Request {}: Got endpoint {}", k, endpoint)
StatsHeader == Line("=== Stats Example ===", 0, "")
StatsLines(st) ==
    << Line("Mode: {}", 0, st.mode),
       Line("Total instances: {}", st.total_instances, ""),
       Line("Healthy instances: {}", st.healthy_instances, ""),
       Line("Active connections: {}", st.active_connections, ""),
       Line("Total connections: {}", st.total_connections, "") >>
SuccessLine == Line("All examples completed successfully!", 0, "")
ClosingLines ==
    << SuccessLine,
       Line("Note: This example shows API usage. For full browser automation,", 0, ""),
       Line("connect to the WebSocket endpoint using a compatible client.", 0, "") >>

StartCommand == "  camoufox-connector --mode pool --pool-size 3"

\* main, the Ok(false) arm
NotHealthyDiagnostic ==
    << Line("Server is not healthy. Please start the connector first.", 0, "") >>

\* the Err(e) arm without the command to start the server
HealthErrDiagnosticNoCommand(url, e) ==
    << Line("Cannot connect to Camoufox Connector at {}", 0, url),
       Line("Please start the server first:", 0, ""),
       Line("Error: {}", 0, e) >>

\* main, the Err(e) arm
HealthErrDiagnostic(url, e) ==
    << Line("Cannot connect to Camoufox Connector at {}", 0, url),
       Line("Please start the server first:", 0, ""),
       Line(StartCommand, 0, ""),
       Line("Error: {}", 0, e) >>

\* what the runtime writes when main returns Err(e)
MainErrLine(e) == Line("Error: {:?}", 0, e)

(***************************************************************************)
(* Control flow of main and of the two examples.                           *)
(***************************************************************************)
NumRequests == 5

\* the loop written as 1..5: one iteration short
LoopContinuesExclusive(k) == k < NumRequests

\* for i in 1..=5
LoopContinues(k) == k <= NumRequests

\* a match that lets every Ok(_) through
HealthPassedAnyOk(res) == res.ok

\* main: only Ok(true) lets the run go on
HealthPassed(res) == res.ok /\ res.val

\* a main that swallows the error of its examples
ExitCodeAlwaysZero(res) == 0

\* exit status of a main that returns res
ExitCode(res) == IF res.ok THEN 0 ELSE 1

\* a loop that asks again when a request failed
AfterNextRetry(res, k) ==
    IF ~res.ok THEN "get_next_endpoint"
    ELSE IF k + 1 <= NumRequests THEN "get_next_endpoint"
    ELSE "stats_example"

\* where pool_example goes after get_next_endpoint(client).await? of
\* iteration k returned res
AfterNext(res, k) ==
    IF ~res.ok THEN "exited"
    ELSE IF LoopContinues(k + 1) THEN "get_next_endpoint"
    ELSE "stats_example"

(***************************************************************************)
(* State.                                                                  *)
(***************************************************************************)
VARIABLES
    env,            \* CAMOUFOX_API: <<>> unset, <<v>> set to v
    env_changes,    \* how many times env was rewritten since startup
    pc,             \* where main is
    client,         \* TRUE once Client::new() has run
    api_url,        \* main's local api_url
    i,              \* pool_example's loop variable
    requests,       \* every request sent so far: [path, base]
    inflight,       \* indexes in requests of the requests not yet completed
    replies,        \* <<index, response>> answered by the server, not yet read
    responses,      \* the responses the client has read, in order
    health_result,  \* <<>> or <<the result of check_health>>
    stats,          \* <<>> or <<the result of get_stats>>
    stdout,
    stderr,
    exit_status     \* <<>> while running, <<code>> once the process ended

vars == << env, env_changes, pc, client, api_url, i, requests, inflight,
           replies, responses, health_result, stats, stdout, stderr,
           exit_status >>

EnvValues == {<<>>, <<"http://localhost:9090">>, <<"http://10.0.0.5:8080">>}

Init ==
    /\ env \in EnvValues
    /\ env_changes = 0
    /\ pc = "main"
    /\ client = FALSE
    /\ api_url = ""
    /\ i = 0
    /\ requests = <<>>
    /\ inflight = {}
    /\ replies = {}
    /\ responses = <<>>
    /\ health_result = <<>>
    /\ stats = <<>>
    /\ stdout = <<>>
    /\ stderr = <<>>
    /\ exit_status = <<>>

\* client.get(format!("{}<path>", api_url)).send(): the request leaves
Send(path, base) ==
    /\ requests' = Append(requests, [path |-> path, base |-> base])
    /\ inflight' = inflight \cup {Len(requests) + 1}

\* an await that a refused connection never wakes
CompletedUnlessRefused(id) ==
    \E r \in replies : r[1] = id /\ r[2].kind # "transport"

\* .await: the request the client waits for has been answered
Completed(id) == \E r \in replies : r[1] = id

\* the request main is suspended on: the last one sent
Awaited == Len(requests)

Reply == (CHOOSE r \in replies : r[1] = Awaited)[2]

\* the future resolves: the reply is taken off the wire
Take ==
    /\ Awaited \in inflight
    /\ Completed(Awaited)
    /\ inflight' = inflight \ {Awaited}
    /\ replies' = {r \in replies : r[1] # Awaited}
    /\ responses' = Append(responses, Reply)

(***************************************************************************)
(* The client: one action per stretch of main between two suspensions.     *)
(***************************************************************************)
\* main: Client::new(), let api_url = get_api_url()
Main ==
    /\ pc = "main"
    /\ client' = TRUE
    /\ api_url' = get_api_url(env)
    /\ pc' = "check_health"
    /\ UNCHANGED << env, env_changes, i, requests, inflight, replies,
                    responses, health_result, stats, stdout, stderr,
                    exit_status >>

\* check_health up to send()
CheckHealthSend ==
    /\ pc = "check_health"
    /\ Send("/health", get_api_url(env))
    /\ pc' = "await_health"
    /\ UNCHANGED << env, env_changes, client, api_url, i, replies, responses,
                    health_result, stats, stdout, stderr, exit_status >>

\* check_health from the answer on, and main's match on its result
CheckHealthRecv ==
    /\ pc = "await_health"
    /\ Take
    /\ LET res == check_health(Reply)
           seen == IF res.ok
                   THEN << HealthDebugLine(Reply.obj["status"].s) >>
                   ELSE << >>
       IN  /\ health_result' = << res >>
           /\ IF HealthPassed(res)
              THEN /\ stdout' = stdout \o seen \o << HealthyLine >>
                   /\ pc' = "pool_example"
                   /\ UNCHANGED << stderr, exit_status >>
              ELSE /\ stdout' = stdout \o seen
                   /\ stderr' = stderr \o
                         (IF res.ok THEN NotHealthyDiagnostic
                          ELSE HealthErrDiagnostic(api_url, res.err))
                   /\ exit_status' = << 1 >>
                   /\ pc' = "exited"
    /\ UNCHANGED << env, env_changes, client, api_url, i, requests, stats >>

\* pool_example up to the first iteration of its loop
PoolExample ==
    /\ pc = "pool_example"
    /\ stdout' = Append(stdout, PoolHeader)
    /\ i' = 1
    /\ pc' = IF LoopContinues(1) THEN "get_next_endpoint" ELSE "stats_example"
    /\ UNCHANGED << env, env_changes, client, api_url, requests, inflight,
                    replies, responses, health_result, stats, stderr,
                    exit_status >>

\* get_next_endpoint up to send()
GetNextEndpointSend ==
    /\ pc = "get_next_endpoint"
    /\ Send("/next", get_api_url(env))
    /\ pc' = "await_next"
    /\ UNCHANGED << env, env_changes, client, api_url, i, replies, responses,
                    health_result, stats, stdout, stderr, exit_status >>

\* get_next_endpoint from the answer on, the rest of the loop body, and
\* main's ? on the result of pool_example
GetNextEndpointRecv ==
    /\ pc = "await_next"
    /\ Take
    /\ LET res == get_next_endpoint(Reply)
       IN  /\ pc' = AfterNext(res, i)
           /\ IF res.ok
              THEN /\ stdout' = Append(stdout, PoolLine(i, res.val))
                   /\ i' = i + 1
              ELSE UNCHANGED << stdout, i >>
           /\ IF AfterNext(res, i) = "exited"
              THEN /\ stderr' = Append(stderr, MainErrLine(res.err))
                   /\ exit_status' = << ExitCode(res) >>
              ELSE UNCHANGED << stderr, exit_status >>
    /\ UNCHANGED << env, env_changes, client, api_url, requests,
                    health_result, stats >>

\* stats_example up to get_stats
StatsExample ==
    /\ pc = "stats_example"
    /\ stdout' = Append(stdout, StatsHeader)
    /\ pc' = "get_stats"
    /\ UNCHANGED << env, env_changes, client, api_url, i, requests, inflight,
                    replies, responses, health_result, stats, stderr,
                    exit_status >>

\* get_stats up to send()
GetStatsSend ==
    /\ pc = "get_stats"
    /\ Send("/stats", get_api_url(env))
    /\ pc' = "await_stats"
    /\ UNCHANGED << env, env_changes, client, api_url, i, replies, responses,
                    health_result, stats, stdout, stderr, exit_status >>

\* get_stats from the answer on, the rest of stats_example and of main
GetStatsRecv ==
    /\ pc = "await_stats"
    /\ Take
    /\ LET res == get_stats(Reply)
       IN  /\ stats' = << res >>
           /\ IF res.ok
              THEN /\ stdout' = stdout \o StatsLines(res.val) \o ClosingLines
                   /\ exit_status' = << ExitCode(Ok(<< >>)) >>
                   /\ UNCHANGED stderr
              ELSE /\ stderr' = Append(stderr, MainErrLine(res.err))
                   /\ exit_status' = << ExitCode(res) >>
                   /\ UNCHANGED stdout
    /\ pc' = "exited"
    /\ UNCHANGED << env, env_changes, client, api_url, i, requests,
                    health_result >>

(***************************************************************************)
(* The surroundings.                                                       *)
(***************************************************************************)
\* the server answers a request (or the connection to it fails)
ServerReply ==
    \E id \in inflight :
        /\ ~Completed(id)
        /\ \E resp \in Responses(requests[id].path) :
               replies' = replies \cup {<< id, resp >>}
        /\ UNCHANGED << env, env_changes, pc, client, api_url, i, requests,
                        inflight, responses, health_result, stats, stdout,
                        stderr, exit_status >>

\* CAMOUFOX_API is rewritten in the environment of the running process
SetEnv ==
    /\ pc # "exited"
    /\ env_changes < MaxEnvChanges
    /\ env' \in EnvValues \ {env}
    /\ env_changes' = env_changes + 1
    /\ UNCHANGED << pc, client, api_url, i, requests, inflight, replies,
                    responses, health_result, stats, stdout, stderr,
                    exit_status >>

ClientStep ==
    \/ Main
    \/ CheckHealthSend
    \/ CheckHealthRecv
    \/ PoolExample
    \/ GetNextEndpointSend
    \/ GetNextEndpointRecv
    \/ StatsExample
    \/ GetStatsSend
    \/ GetStatsRecv

Next ==
    \/ Main
    \/ CheckHealthSend
    \/ CheckHealthRecv
    \/ PoolExample
    \/ GetNextEndpointSend
    \/ GetNextEndpointRecv
    \/ StatsExample
    \/ GetStatsSend
    \/ GetStatsRecv
    \/ ServerReply

NextEnv == Next \/ SetEnv

\* the program as it runs: nothing rewrites its environment
Spec == Init /\ [][Next]_vars

\* the program in an environment that is rewritten under it
SpecEnv == Init /\ [][NextEnv]_vars

\* the runtime resumes main whenever it can go on; the server owes nothing
LiveSpec == Init /\ [][Next]_vars /\ WF_vars(ClientStep)

TypeOK ==
    /\ env \in EnvValues
    /\ pc \in {"main", "check_health", "await_health", "pool_example",
                "get_next_endpoint", "await_next", "stats_example",
                "get_stats", "await_stats", "exited"}
    /\ i \in 0 .. NumRequests + 1
    /\ inflight \subseteq 1 .. Len(requests)
    /\ Len(exit_status) <= 1

(***************************************************************************)
(* Vocabulary of the properties.                                           *)
(***************************************************************************)
Paths == [k \in 1 .. Len(requests) |-> requests[k].path]

ExpectedPaths ==
    << "/health", "/next", "/next", "/next", "/next", "/next", "/stats" >>

IsPrefix(a, b) == Len(a) <= Len(b) /\ \A k \in 1 .. Len(a) : a[k] = b[k]

Count(path) == Cardinality({k \in 1 .. Len(requests) : requests[k].path = path})

Exited == exit_status # << >>

\* the k-th request was read and gave its caller a typed result
Decoded(k) ==
    IF requests[k].path = "/health" THEN check_health(responses[k]).ok
    ELSE IF requests[k].path = "/next" THEN get_next_endpoint(responses[k]).ok
    ELSE get_stats(responses[k]).ok

\* the answer to /health says "healthy"
SaysHealthy(r) ==
    /\ r.kind = "json"
    /\ "status" \in DOMAIN r.obj
    /\ r.obj["status"] = JStr("healthy")

\* every answer read so far was a good one
AllGood ==
    \A k \in 1 .. Len(responses) :
        Decoded(k) /\ (k = 1 => SaysHealthy(responses[1]))

HealthOutcome ==
    IF health_result = << >> THEN "pending"
    ELSE IF ~health_result[1].ok THEN "error"
    ELSE IF health_result[1].val THEN "true"
    ELSE "false"

IsEndpointLine(l) == l.text = "Request {}: Got endpoint {}"
EndpointLines == SelectSeq(stdout, IsEndpointLine)

\* the answers to the /next requests, in the order they were read
NextResponses ==
    LET Pair(k) == [path |-> requests[k].path, resp |-> responses[k]]
        IsNext(x) == x.path = "/next"
    IN  SelectSeq([k \in 1 .. Len(responses) |-> Pair(k)], IsNext)

Printed(out, l) == \E k \in 1 .. Len(out) : out[k] = l

(***************************************************************************)
(* C1: against a server that answers "healthy" and whose answers all       *)
(* decode, a finished run has sent exactly /health, five /next, /stats in  *)
(* that order; at every moment at most one request is in flight, and it is *)
(* the last one sent.                                                      *)
(***************************************************************************)
C1_DemoSequence ==
    /\ Cardinality(inflight) <= 1
    /\ inflight \subseteq {Len(requests)}
    /\ (AllGood => IsPrefix(Paths, ExpectedPaths))
    /\ (Exited /\ AllGood => Paths = ExpectedPaths)

C1_Witness ==
    /\ Exited
    /\ AllGood
    /\ Len(responses) = Len(ExpectedPaths)

(***************************************************************************)
(* C2: a /next or /stats request is sent only after check_health returned  *)
(* true; when it returned false or failed, the process has ended with a    *)
(* non-zero status and no /next or /stats request was sent.                *)
(***************************************************************************)
C2_HealthGate ==
    /\ (Count("/next") + Count("/stats") > 0 => HealthOutcome = "true")
    /\ (HealthOutcome \in {"false", "error"} =>
          /\ Exited
          /\ exit_status[1] # 0
          /\ Paths = << "/health" >>)

C2_Witness ==
    /\ HealthOutcome = "false"
    /\ exit_status = << 1 >>
    /\ pc = "exited"

(***************************************************************************)
(* C3: the exit status is 0 exactly when the health check returned true    *)
(* and the five /next calls and the /stats call returned a typed result;   *)
(* any other finished run, and any run with a failed call, has a non-zero  *)
(* status; the success message is printed only with status 0.              *)
(***************************************************************************)
FullySuccessful ==
    /\ Len(responses) = Len(ExpectedPaths)
    /\ Paths = ExpectedPaths
    /\ AllGood

C3_ExitStatus ==
    /\ (exit_status = << 0 >> <=> FullySuccessful)
    /\ (~AllGood => Exited /\ exit_status[1] # 0)
    /\ (Printed(stdout, SuccessLine) => exit_status = << 0 >>)

C3_Witness ==
    /\ HealthOutcome = "true"
    /\ Len(responses) > 1
    /\ ~Decoded(Len(responses))
    /\ exit_status = << 1 >>

(***************************************************************************)
(* C4: check_health returns true exactly for an answer that decodes with   *)
(* status "healthy", false exactly for an answer that decodes with another *)
(* status string, and fails otherwise: with a transport error when the     *)
(* server was not reached, with a decode error when the body is malformed  *)
(* or has no status string.                                                *)
(***************************************************************************)
HasStatusString(r) ==
    /\ r.kind = "json"
    /\ "status" \in DOMAIN r.obj
    /\ r.obj["status"].t = "str"

C4_CheckHealthOutcomes ==
    health_result # << >> =>
        LET r == responses[1]
        IN  /\ (HealthOutcome = "true" <=> SaysHealthy(r))
            /\ (HealthOutcome = "false" <=>
                    HasStatusString(r) /\ r.obj["status"].s # "healthy")
            /\ (HealthOutcome = "error" <=> ~HasStatusString(r))
            /\ (r.kind = "transport" => health_result[1].err = "transport")
            /\ (r.kind # "transport" /\ ~HasStatusString(r) =>
                    health_result[1].err = "decode")

C4_Witness ==
    /\ HealthOutcome = "error"
    /\ responses[1].kind = "json"
    /\ "status" \notin DOMAIN responses[1].obj
    /\ health_result[1].err = "decode"

(***************************************************************************)
(* C5: whenever the health check does not pass, whether check_health       *)
(* returned false or failed, the diagnostic names the resolved base        *)
(* address and the command that starts the server.                         *)
(***************************************************************************)
NamesAddress(out) == \E k \in 1 .. Len(out) : out[k].s = api_url
NamesCommand(out) == \E k \in 1 .. Len(out) : out[k].text = StartCommand

C5_DiagnosticAlways ==
    HealthOutcome \in {"false", "error"} =>
        NamesAddress(stderr) /\ NamesCommand(stderr)

(***************************************************************************)
(* C5, amended: when check_health failed with an error the diagnostic      *)
(* names the resolved base address and the command that starts the server; *)
(* when it returned false the diagnostic is the single line "Server is not *)
(* healthy. Please start the connector first." and names neither.          *)
(***************************************************************************)
C5_DiagnosticOnError ==
    /\ (HealthOutcome = "error" =>
          NamesAddress(stderr) /\ NamesCommand(stderr))
    /\ (HealthOutcome = "false" =>
          /\ Len(stderr) = 1
          /\ stderr[1].text =
                "Server is not healthy. Please start the connector first."
          /\ ~NamesAddress(stderr)
          /\ ~NamesCommand(stderr))

C5_Witness ==
    /\ HealthOutcome = "error"
    /\ Exited
    /\ responses[1].kind = "transport"
    /\ NamesAddress(stderr)

(***************************************************************************)
(* C6: the base address is resolved once, at startup, and every request of *)
(* the run goes to that address, which is also the one the health          *)
(* diagnostic names, even when the environment variable is rewritten after *)
(* startup.                                                                *)
(***************************************************************************)
C6_ResolvedOnce ==
    pc # "main" =>
        /\ \A k \in 1 .. Len(requests) : requests[k].base = api_url
        /\ (HealthOutcome = "error" => NamesAddress(stderr))

(***************************************************************************)
(* C7: the k-th endpoint line carries the index k and the endpoint string  *)
(* of the answer to the k-th /next request, and every decoded answer has   *)
(* its line.                                                               *)
(***************************************************************************)
C7_PassThrough ==
    /\ Len(EndpointLines) =
          Cardinality({k \in 1 .. Len(NextResponses) :
                          get_next_endpoint(NextResponses[k].resp).ok})
    /\ \A k \in 1 .. Len(EndpointLines) :
          /\ k <= Len(NextResponses)
          /\ NextResponses[k].resp.kind = "json"
          /\ "endpoint" \in DOMAIN NextResponses[k].resp.obj
          /\ EndpointLines[k].n = k
          /\ JStr(EndpointLines[k].s) = NextResponses[k].resp.obj["endpoint"]

C7_Witness ==
    /\ Len(EndpointLines) = 5
    /\ EndpointLines[1].s # EndpointLines[2].s
    /\ EndpointLines[3].s = EndpointLines[1].s
    /\ EndpointLines[5].n = 5

(***************************************************************************)
(* C8: for every /stats answer with a text mode and integer values in the  *)
(* four counters, get_stats succeeds and returns exactly those values.     *)
(***************************************************************************)
StatsShaped(r) ==
    /\ r.kind = "json"
    /\ "mode" \in DOMAIN r.obj
    /\ r.obj["mode"].t = "str"
    /\ \A f \in StatsIntFields : f \in DOMAIN r.obj /\ r.obj[f].t = "int"

\* the counters, digit by digit, are the ones of the body
ReturnedExactly(res, r) ==
    /\ res.ok
    /\ res.val["mode"] = r.obj["mode"].s
    /\ \A f \in StatsIntFields :
          /\ res.val[f] \div Radix = r.obj[f].hi
          /\ res.val[f] % Radix = r.obj[f].lo

StatsAnswer == responses[Len(responses)]

C8_AnyIntegers ==
    stats # << >> /\ StatsShaped(StatsAnswer) =>
        ReturnedExactly(stats[1], StatsAnswer)

(***************************************************************************)
(* C8, amended: for every /stats answer with a text mode and, in the four  *)
(* counters, integer values of the signed 32-bit range, get_stats succeeds *)
(* and returns exactly those values, whatever their combination (healthy   *)
(* above total included); an answer with a counter outside that range is   *)
(* rejected with a decode error.                                           *)
(***************************************************************************)
FitsI32(j) == j.hi >= -(2 ^ 15) /\ j.hi < 2 ^ 15

C8_Int32Only ==
    stats # << >> /\ StatsShaped(StatsAnswer) =>
        IF \A f \in StatsIntFields : FitsI32(StatsAnswer.obj[f])
        THEN ReturnedExactly(stats[1], StatsAnswer)
        ELSE ~stats[1].ok /\ stats[1].err = "decode"

C8_Witness ==
    /\ stats # << >>
    /\ stats[1].ok
    /\ stats[1].val.healthy_instances > stats[1].val.total_instances
    /\ Printed(stdout, Line("Healthy instances: {}", 5, ""))

(***************************************************************************)
(* C9: no request is repeated and the first failure ends the run: once the *)
(* k-th /next request or the /stats request has failed, it is the last     *)
(* request sent, the run is over, and the endpoint lines are those of the  *)
(* /next requests before it; no run sends more than one /health, five      *)
(* /next and one /stats.                                                   *)
(***************************************************************************)
C9_AbortOnFirstFailure ==
    /\ Count("/health") <= 1
    /\ Count("/next") <= 5
    /\ Count("/stats") <= 1
    /\ \A k \in 2 .. Len(responses) :
          ~Decoded(k) =>
              /\ Len(requests) = k
              /\ inflight = {}
              /\ Exited
              /\ (requests[k].path = "/next" =>
                    Len(EndpointLines) = Count("/next") - 1)
              /\ (requests[k].path = "/stats" => Len(EndpointLines) = 5)

C9_Witness ==
    /\ Len(responses) = 4
    /\ ~Decoded(4)
    /\ Len(requests) = 4
    /\ Len(EndpointLines) = 2
    /\ Exited

(***************************************************************************)
(* C10: every run eventually ends, whatever the server does.               *)
(***************************************************************************)
C10_AlwaysTerminates == <>Exited

(***************************************************************************)
(* C10, amended: every run in which the server answers (or refuses) each   *)
(* request eventually ends; the client sets no request timeout, so a       *)
(* request that is never answered is awaited forever.                      *)
(***************************************************************************)
Unanswered == {id \in inflight : \A r \in replies : r[1] # id}

C10_TerminatesIfAnswered == []<>(Unanswered = {}) => <>Exited

C10_Witness ==
    /\ Exited
    /\ Len(responses) > 1
    /\ responses[Len(responses)].kind = "transport"
    /\ inflight = {}

====
